---------------------------- MODULE Spec2Model ----------------------------
(***************************************************************************)
(* Webhook signature verification of the plaid crate                       *)
(* (src/src/types/webhook.rs, module `verification`).                      *)
(*                                                                         *)
(* The pure functions of the module (is_expired, string_to_big_num,        *)
(* extract_key_id, verify_webhook) are operators.  VerifySpec applies      *)
(* verify_webhook to inputs drawn from bounded sets.                       *)
(***************************************************************************)
EXTENDS Integers, Sequences, FiniteSets, TLC

(***************************************************************************)
(* Bounds of the model.                                                    *)
(***************************************************************************)
\* Width of the model's unsigned timestamps (u64 in the source).
TimestampBits == 11
\* Timestamps are taken at distance 0..MaxDelta around the window's edges.
MaxDelta == 1

Modulus == 2 ^ TimestampBits

\* `5 * 60`, webhook.rs:261
FreshnessWindow == 5 * 60

(***************************************************************************)
(* Result<T, WebhookVerificationError>, and a panic of the thread.         *)
(***************************************************************************)
NoErr == [kind |-> "none", arg |-> ""]

\* enum WebhookVerificationError
ApiError(e)         == [kind |-> "ApiError", arg |-> e]
MissingParameter(p) == [kind |-> "MissingParameter", arg |-> p]
IncorrectAlgorithm  == [kind |-> "IncorrectAlgorithm", arg |-> ""]
CouldNotParse       == [kind |-> "CouldNotParse", arg |-> ""]
CouldNotValidate    == [kind |-> "CouldNotValidate", arg |-> ""]
Cryptography        == [kind |-> "Cryptography", arg |-> ""]

WebhookVerificationError ==
    {"ApiError", "MissingParameter", "IncorrectAlgorithm", "CouldNotParse",
     "CouldNotValidate", "Cryptography"}

Ok(v)   == [tag |-> "Ok", val |-> v, err |-> NoErr]
\* An Err of a Result<bool, _>, of a Result<String, _>, of a Result<BigNum, _>
ErrB(e) == [tag |-> "Err", val |-> FALSE, err |-> e]
ErrS(e) == [tag |-> "Err", val |-> "", err |-> e]
ErrN(e) == [tag |-> "Err", val |-> 0, err |-> e]
\* `attempt to subtract with overflow`: the thread panics, no value is returned
Panic   == [tag |-> "Panic", val |-> FALSE, err |-> NoErr]
\* no call made yet
NoResult == [tag |-> "None", val |-> FALSE, err |-> NoErr]

\* Option<u64>, Option<bool>, Option<String>
None    == [some |-> FALSE, v |-> 0]
NoBool  == [some |-> FALSE, v |-> FALSE]
NoKid   == [some |-> FALSE, v |-> ""]
Some(v) == [some |-> TRUE, v |-> v]

(***************************************************************************)
(* serde_utils::default_on_null: a Vec field written as null when empty.   *)
(* JSON values are null, strings and arrays.                               *)
(***************************************************************************)
\* longest list of the model
MaxListLen == 3

ListItems == {"test_id", "id2", "id3"}

RECURSIVE ListsUpTo(_)
ListsUpTo(n) ==
    IF n = 0 THEN {<<>>}
    ELSE ListsUpTo(n - 1) \cup {Append(l, e) : l \in ListsUpTo(n - 1), e \in ListItems}

Lists == ListsUpTo(MaxListLen)

JsonNull      == [t |-> "null", s |-> "", items |-> <<>>]
JsonString(e) == [t |-> "string", s |-> e, items |-> <<>>]
JsonArray(js) == [t |-> "array", s |-> "", items |-> js]

NotSerialized   == [t |-> "none", s |-> "", items |-> <<>>]
NotDeserialized == [tag |-> "None", val |-> <<>>, err |-> NoErr]
SerdeError      == [kind |-> "serde", arg |-> "invalid type"]
ErrL(e)         == [tag |-> "Err", val |-> <<>>, err |-> e]

\* <[String] as Serialize>::serialize into JSON
serialize_some(value) == JsonArray([i \in 1..Len(value) |-> JsonString(value[i])])

\* mutant: an empty list is written as []
serialize_plain(value) == serialize_some(value)

\* default_on_null::serialize
serialize(value) ==
    IF value = <<>> THEN JsonNull ELSE serialize_some(value)

\* Option::<Vec<String>>::deserialize(..)?.unwrap_or_default()
deserialize(j) ==
    IF j.t = "null" THEN Ok(<<>>)
    ELSE IF j.t = "array" /\ \A i \in 1..Len(j.items) : j.items[i].t = "string"
    THEN Ok([i \in 1..Len(j.items) |-> j.items[i].s])
    ELSE ErrL(SerdeError)

(***************************************************************************)
(* base64::decode_config(val, URL_SAFE_NO_PAD) followed by                 *)
(* BigNum::from_slice: the big-endian number of the decoded bytes.         *)
(* A string is a sequence of one-character strings.                        *)
(***************************************************************************)
\* The URL-safe alphabet, restricted to the characters the model uses.
B64Alphabet == {"A", "B", "Q", "R", "g"}

B64Val(c) ==
    CASE c = "A" -> 0
      [] c = "B" -> 1
      [] c = "Q" -> 16
      [] c = "R" -> 17
      [] c = "g" -> 32

RECURSIVE B64Bits(_)
\* the number whose base-64 digits are the characters of s
B64Bits(s) ==
    IF s = <<>> THEN 0
    ELSE B64Bits(SubSeq(s, 1, Len(s) - 1)) * 64 + B64Val(s[Len(s)])

decode_config(s) ==
    LET trailing == (6 * Len(s)) % 8
    IN  IF \E i \in 1..Len(s) : s[i] \notin B64Alphabet
        THEN ErrN(CouldNotParse)              \* InvalidByte ('=', '+', '/')
        ELSE IF Len(s) % 4 = 1
        THEN ErrN(CouldNotParse)              \* InvalidLength
        ELSE IF B64Bits(s) % (2 ^ trailing) # 0
        THEN ErrN(CouldNotParse)              \* InvalidLastSymbol
        ELSE Ok(B64Bits(s) \div (2 ^ trailing))

string_to_big_num(val) == decode_config(val)

(***************************************************************************)
(* Keys.  A Jwk is the flattened base JWK plus created_at / expired_at.    *)
(***************************************************************************)
KeyIds == {"k1", "k2"}

\* The signers of the model and the affine coordinates of their public keys.
Signers == {"sk1", "sk2"}
PublicKeyOf(sk) == IF sk = "sk1" THEN <<1, 2>> ELSE <<2, 1>>

\* X9_62_PRIME256V1 restricted to the coordinates the model uses: the points
\* EcKey::from_public_key_affine_coordinates accepts.
P256Points == {PublicKeyOf(sk) : sk \in Signers}

from_public_key_affine_coordinates(x, y) ==
    IF <<x, y>> \in P256Points THEN Ok(<<x, y>>) ELSE ErrN(Cryptography)

Jwk(kid, kty, crv, x, y, created_at, expired_at) ==
    [kid |-> kid, kty |-> kty, crv |-> crv, x |-> x, y |-> y,
     created_at |-> created_at, expired_at |-> expired_at]

\* Option<Jwk>::None
NoKey == [some |-> FALSE, v |-> Jwk("", "", "", <<>>, <<>>, 0, None)]

\* mutant: the key is never reported expired
is_expired_never(key, now) ==
    IF key.expired_at.some THEN Some(FALSE) ELSE NoBool

\* Jwk::is_expired, with the clock's reading as a parameter
is_expired(key, now) ==
    IF key.expired_at.some THEN Some(key.expired_at.v < now) ELSE NoBool

(***************************************************************************)
(* Tokens: the compact serialisation `header.payload.signature`.           *)
(*   parts  : number of dot-separated segments is three, or not            *)
(*   hdr    : the header segment is base64url of a JSON object, or garbage *)
(*   alg,kid: the header's fields (kid optional)                           *)
(*   claims : which of the two claims the payload carries                  *)
(*   iat, sha: the claims                                                  *)
(*   signer : whose ES256 signature over header.payload is the third       *)
(*            segment ("forged": nobody's)                                 *)
(***************************************************************************)
\* jsonwebtoken::Algorithm: the `alg` values the header deserialises to
Algorithm ==
    {"HS256", "HS384", "HS512", "ES256", "ES384", "RS256", "RS384", "RS512",
     "PS256", "PS384", "PS512", "EdDSA"}

Bodies == {"body1", "body2"}

\* openssl::sha::sha256 on the model's bodies (distinct bodies, distinct digests)
sha256(bytes) == IF bytes = "body1" THEN "digest1" ELSE "digest2"

\* hex::encode of a 32-byte digest
HexOf(d) == [fmt |-> "hex64", val |-> d]
\* <[u8; 32] as FromHex>::from_hex: 64 hex digits or an error
from_hex(s) == IF s.fmt = "hex64" THEN Ok(s.val) ELSE ErrS(CouldNotParse)

Token(parts3, hdr, alg, kid, claims, iat, sha, signer) ==
    [parts3 |-> parts3, hdr |-> hdr, alg |-> alg, kid |-> kid,
     claims |-> claims, iat |-> iat, sha |-> sha, signer |-> signer]

\* jsonwebtoken::errors::ErrorKind
JwtError(k) == [kind |-> k, arg |-> "jsonwebtoken"]

\* jsonwebtoken::decode_header
decode_header(token) ==
    IF ~token.parts3 THEN ErrS(JwtError("InvalidToken"))
    ELSE IF token.hdr # "json" THEN ErrS(JwtError("Base64"))
    ELSE IF token.alg \notin Algorithm THEN ErrS(JwtError("Json"))
    ELSE Ok([alg |-> token.alg, kid |-> token.kid])

\* mutant: a missing kid becomes the empty key id
extract_key_id_default_kid(token) ==
    LET header == decode_header(token)
    IN  IF header.tag = "Err" THEN ErrS(CouldNotParse)
        ELSE IF header.val.alg # "ES256" THEN ErrS(IncorrectAlgorithm)
        ELSE Ok(header.val.kid.v)

\* mutant: the whole token is decoded, signature included
extract_key_id_whole_token(token) ==
    LET header == decode_header(token)
    IN  IF header.tag = "Err" THEN ErrS(CouldNotParse)
        ELSE IF token.signer \notin Signers \/ token.claims # "full"
        THEN ErrS(CouldNotParse)
        ELSE IF header.val.alg # "ES256" THEN ErrS(IncorrectAlgorithm)
        ELSE IF header.val.kid.some THEN Ok(header.val.kid.v)
        ELSE ErrS(MissingParameter("kid"))

\* mutant: the kid is looked for before the algorithm is checked
extract_key_id_kid_first(token) ==
    LET header == decode_header(token)
    IN  IF header.tag = "Err" THEN ErrS(CouldNotParse)
        ELSE IF ~header.val.kid.some THEN ErrS(MissingParameter("kid"))
        ELSE IF header.val.alg # "ES256" THEN ErrS(IncorrectAlgorithm)
        ELSE Ok(header.val.kid.v)

\* mutant: the declared algorithm is not checked
extract_key_id_no_alg_check(token) ==
    LET header == decode_header(token)
    IN  IF header.tag = "Err" THEN ErrS(CouldNotParse)
        ELSE IF header.val.kid.some THEN Ok(header.val.kid.v)
        ELSE ErrS(MissingParameter("kid"))

extract_key_id(token) ==
    LET header == decode_header(token)
    IN  IF header.tag = "Err" THEN ErrS(CouldNotParse)
        ELSE IF header.val.alg # "ES256" THEN ErrS(IncorrectAlgorithm)
        ELSE IF header.val.kid.some THEN Ok(header.val.kid.v)
        ELSE ErrS(MissingParameter("kid"))

\* the ES256 signature of the token validates under the public key `point`
SignatureValid(token, point) ==
    /\ token.signer \in Signers
    /\ PublicKeyOf(token.signer) = point

\* mutant: the header's algorithm is not held against the validation's
decode_any_alg(token, point) ==
    LET header == decode_header(token)
    IN  IF header.tag = "Err" THEN ErrS(header.err)
        ELSE IF ~SignatureValid(token, point) THEN ErrS(JwtError("InvalidSignature"))
        ELSE IF token.claims # "full" THEN ErrS(JwtError("Json"))
        ELSE Ok([iat |-> token.iat, request_body_sha256 |-> token.sha])

\* jsonwebtoken::decode::<Claims>(token, key, Validation::new(ES256)) with
\* required_spec_claims emptied and validate_exp off
decode(token, point) ==
    LET header == decode_header(token)
    IN  IF header.tag = "Err" THEN ErrS(header.err)
        ELSE IF header.val.alg # "ES256" THEN ErrS(JwtError("InvalidAlgorithm"))
        ELSE IF ~SignatureValid(token, point) THEN ErrS(JwtError("InvalidSignature"))
        ELSE IF token.claims # "full" THEN ErrS(JwtError("Json"))
        ELSE Ok([iat |-> token.iat, request_body_sha256 |-> token.sha])
(***************************************************************************)
(* verification::verify_webhook(key, token, webhook_bytes).  The clock's   *)
(* reading `now` is a parameter; overflow_checks is the build's            *)
(* `overflow-checks` setting (on in debug builds, off in release builds),  *)
(* which decides what `now - (5 * 60)` does below zero.                    *)
(***************************************************************************)
wrapping_sub(a, b) == (a - b) % Modulus

\* mutant: the digest comparison is left out
verify_webhook_no_digest(key, token, webhook_bytes, now, overflow_checks) ==
    IF ~(key.kty = "EC" /\ key.crv = "P-256") THEN Ok(FALSE)
    ELSE LET x == string_to_big_num(key.x)
             y == string_to_big_num(key.y)
         IN  IF x.tag = "Err" \/ y.tag = "Err" THEN ErrB(CouldNotParse)
             ELSE IF from_public_key_affine_coordinates(x.val, y.val).tag = "Err"
             THEN ErrB(Cryptography)
             ELSE IF decode(token, <<x.val, y.val>>).tag = "Err"
             THEN ErrB(CouldNotValidate)
             ELSE IF now - FreshnessWindow > token.iat THEN Ok(FALSE)
             ELSE Ok(TRUE)

\* mutant: the coordinates are not checked to be a point of the curve
verify_webhook_point_unchecked(key, token, webhook_bytes, now, overflow_checks) ==
    IF ~(key.kty = "EC" /\ key.crv = "P-256") THEN Ok(FALSE)
    ELSE LET x == string_to_big_num(key.x)
             y == string_to_big_num(key.y)
         IN  IF x.tag = "Err" \/ y.tag = "Err" THEN ErrB(CouldNotParse)
             ELSE IF decode(token, <<x.val, y.val>>).tag = "Err"
             THEN ErrB(CouldNotValidate)
             ELSE IF now < FreshnessWindow /\ overflow_checks THEN Panic
             ELSE IF wrapping_sub(now, FreshnessWindow) > token.iat THEN Ok(FALSE)
             ELSE IF from_hex(token.sha).tag = "Err" THEN ErrB(CouldNotParse)
             ELSE Ok(sha256(webhook_bytes) = from_hex(token.sha).val)

\* mutant: a key past its expired_at verifies nothing
verify_webhook_checks_expiry(key, token, webhook_bytes, now, overflow_checks) ==
    IF ~(key.kty = "EC" /\ key.crv = "P-256") THEN Ok(FALSE)
    ELSE IF is_expired(key, now) = Some(TRUE) THEN Ok(FALSE)
    ELSE LET x == string_to_big_num(key.x)
             y == string_to_big_num(key.y)
         IN  IF x.tag = "Err" \/ y.tag = "Err" THEN ErrB(CouldNotParse)
             ELSE IF from_public_key_affine_coordinates(x.val, y.val).tag = "Err"
             THEN ErrB(Cryptography)
             ELSE IF decode(token, <<x.val, y.val>>).tag = "Err"
             THEN ErrB(CouldNotValidate)
             ELSE IF now < FreshnessWindow /\ overflow_checks THEN Panic
             ELSE IF wrapping_sub(now, FreshnessWindow) > token.iat THEN Ok(FALSE)
             ELSE IF from_hex(token.sha).tag = "Err" THEN ErrB(CouldNotParse)
             ELSE Ok(sha256(webhook_bytes) = from_hex(token.sha).val)

\* mutant: the coordinates are decoded before the curve is looked at
verify_webhook_coords_first(key, token, webhook_bytes, now, overflow_checks) ==
    LET x == string_to_big_num(key.x)
        y == string_to_big_num(key.y)
    IN  IF x.tag = "Err" \/ y.tag = "Err" THEN ErrB(CouldNotParse)
        ELSE IF ~(key.kty = "EC" /\ key.crv = "P-256") THEN Ok(FALSE)
        ELSE IF from_public_key_affine_coordinates(x.val, y.val).tag = "Err"
        THEN ErrB(Cryptography)
        ELSE IF decode(token, <<x.val, y.val>>).tag = "Err"
        THEN ErrB(CouldNotValidate)
        ELSE IF now < FreshnessWindow /\ overflow_checks THEN Panic
        ELSE IF wrapping_sub(now, FreshnessWindow) > token.iat THEN Ok(FALSE)
        ELSE IF from_hex(token.sha).tag = "Err" THEN ErrB(CouldNotParse)
        ELSE Ok(sha256(webhook_bytes) = from_hex(token.sha).val)

\* mutant: any elliptic-curve key is accepted, whatever its curve
verify_webhook_any_curve(key, token, webhook_bytes, now, overflow_checks) ==
    IF key.kty # "EC" THEN Ok(FALSE)
    ELSE LET x == string_to_big_num(key.x)
             y == string_to_big_num(key.y)
         IN  IF x.tag = "Err" \/ y.tag = "Err" THEN ErrB(CouldNotParse)
             ELSE IF from_public_key_affine_coordinates(x.val, y.val).tag = "Err"
             THEN ErrB(Cryptography)
             ELSE IF decode(token, <<x.val, y.val>>).tag = "Err"
             THEN ErrB(CouldNotValidate)
             ELSE IF now < FreshnessWindow /\ overflow_checks THEN Panic
             ELSE IF wrapping_sub(now, FreshnessWindow) > token.iat THEN Ok(FALSE)
             ELSE IF from_hex(token.sha).tag = "Err" THEN ErrB(CouldNotParse)
             ELSE Ok(sha256(webhook_bytes) = from_hex(token.sha).val)

\* mutant: the freshness of the unverified payload is tested before the
\* signature
verify_webhook_freshness_first(key, token, webhook_bytes, now, overflow_checks) ==
    IF ~(key.kty = "EC" /\ key.crv = "P-256") THEN Ok(FALSE)
    ELSE LET x == string_to_big_num(key.x)
             y == string_to_big_num(key.y)
         IN  IF x.tag = "Err" \/ y.tag = "Err" THEN ErrB(CouldNotParse)
             ELSE IF from_public_key_affine_coordinates(x.val, y.val).tag = "Err"
             THEN ErrB(Cryptography)
             ELSE IF now < FreshnessWindow /\ overflow_checks THEN Panic
             ELSE IF wrapping_sub(now, FreshnessWindow) > token.iat THEN Ok(FALSE)
             ELSE IF decode(token, <<x.val, y.val>>).tag = "Err"
             THEN ErrB(CouldNotValidate)
             ELSE IF from_hex(token.sha).tag = "Err" THEN ErrB(CouldNotParse)
             ELSE Ok(sha256(webhook_bytes) = from_hex(token.sha).val)

\* mutant: a stale token is reported as an error
verify_webhook_stale_is_error(key, token, webhook_bytes, now, overflow_checks) ==
    IF ~(key.kty = "EC" /\ key.crv = "P-256") THEN Ok(FALSE)
    ELSE LET x == string_to_big_num(key.x)
             y == string_to_big_num(key.y)
         IN  IF x.tag = "Err" \/ y.tag = "Err" THEN ErrB(CouldNotParse)
             ELSE IF from_public_key_affine_coordinates(x.val, y.val).tag = "Err"
             THEN ErrB(Cryptography)
             ELSE IF decode(token, <<x.val, y.val>>).tag = "Err"
             THEN ErrB(CouldNotValidate)
             ELSE IF now < FreshnessWindow /\ overflow_checks THEN Panic
             ELSE IF wrapping_sub(now, FreshnessWindow) > token.iat
             THEN ErrB(CouldNotValidate)
             ELSE IF from_hex(token.sha).tag = "Err" THEN ErrB(CouldNotParse)
             ELSE Ok(sha256(webhook_bytes) = from_hex(token.sha).val)

verify_webhook(key, token, webhook_bytes, now, overflow_checks) ==
    IF ~(key.kty = "EC" /\ key.crv = "P-256")
    THEN Ok(FALSE)                                         \* wrong algorithm
    ELSE
    LET x == string_to_big_num(key.x) IN
    IF x.tag = "Err" THEN ErrB(x.err) ELSE
    LET y == string_to_big_num(key.y) IN
    IF y.tag = "Err" THEN ErrB(y.err) ELSE
    LET openssl_key == from_public_key_affine_coordinates(x.val, y.val) IN
    IF openssl_key.tag = "Err" THEN ErrB(Cryptography) ELSE
    LET token_data == decode(token, openssl_key.val) IN
    IF token_data.tag = "Err" THEN ErrB(CouldNotValidate) ELSE
    \* verify time was within 5 minutes: `now - (5 * 60) > iat` over u64
    IF now < FreshnessWindow /\ overflow_checks THEN Panic ELSE
    IF wrapping_sub(now, FreshnessWindow) > token_data.val.iat
    THEN Ok(FALSE) ELSE
    LET webhook_sha  == sha256(webhook_bytes)
        expected_sha == from_hex(token_data.val.request_body_sha256)
    IN  IF expected_sha.tag = "Err" THEN ErrB(CouldNotParse)
        ELSE Ok(webhook_sha = expected_sha.val)

(***************************************************************************)
(* The inputs of the model.                                                *)
(***************************************************************************)
\* clock readings: around 0, the window and twice the window
TimePoints ==
    {t \in 0..(Modulus - 1) :
        \E a \in {0, FreshnessWindow, 2 * FreshnessWindow}, d \in 0..MaxDelta :
            t = a + d \/ t = a - d}

\* iat claims: the clock readings, and the top of the u64 range
IatPoints ==
    TimePoints \cup
    {t \in 0..(Modulus - 1) :
        \/ t = Modulus - 1
        \/ \E d \in 0..MaxDelta : t = Modulus - FreshnessWindow + d
                                  \/ t = Modulus - FreshnessWindow - d}

\* base64url-no-pad strings: of 1, of 2, and three that do not decode
\* (nonzero trailing bits, a length of 1 mod 4, padding)
CoordX == {<<"A", "Q">>, <<"A", "g">>, <<"A", "R">>, <<"A">>}
CoordY == {<<"A", "Q">>, <<"A", "g">>, <<"A", "Q", "=", "=">>}

VerifyKeys ==
    {Jwk("k1", "EC", "P-256", x, y, 0, None) : x \in CoordX, y \in CoordY}
    \cup {Jwk("k1", "EC", "P-256", <<"A", "Q">>, <<"A", "g">>, 0,
              Some(FreshnessWindow)),
          Jwk("k1", "EC", "P-384", <<"A", "Q">>, <<"A", "g">>, 0, None),
          Jwk("k1", "EC", "P-384", <<"A">>, <<"A", "g">>, 0, None),
          Jwk("k1", "RSA", "", <<>>, <<>>, 0, None)}

ShaClaims ==
    {HexOf(sha256(b)) : b \in Bodies}
    \cup {[fmt |-> "hex32", val |-> "digest1"], [fmt |-> "nothex", val |-> ""]}

SignedBy == Signers \cup {"forged"}

\* tokens with a parseable ES256 header and both claims
GoodShapeTokens ==
    {Token(TRUE, "json", "ES256", Some("k1"), "full", iat, sha, sk) :
        iat \in IatPoints, sha \in ShaClaims, sk \in SignedBy}

\* tokens that are off in one respect
OddTokens ==
    {Token(TRUE, "json", alg, Some("k1"), "full", iat, HexOf("digest1"), sk) :
        alg \in {"ES384", "none"}, iat \in IatPoints, sk \in SignedBy}
    \cup {Token(TRUE, "json", "ES256", Some("k1"), c, 0, HexOf("digest1"), sk) :
        c \in {"no_iat", "no_sha"}, sk \in SignedBy}
    \cup {Token(FALSE, "json", "ES256", Some("k1"), "full", 0, HexOf("digest1"), "sk1"),
          Token(TRUE, "garbage", "ES256", Some("k1"), "full", 0, HexOf("digest1"), "sk1")}

VerifyTokens == GoodShapeTokens \cup OddTokens

(***************************************************************************)
(* The deliveries, the published keys and the callers of the orchestrated  *)
(* entry point.                                                            *)
(***************************************************************************)
\* concurrent verify_webhook calls
NumCallers == 2
Callers == 1..NumCallers

\* a key id no published key set holds
UnknownKid == "k9"
CacheKeys == KeyIds \cup {UnknownKid}

\* clock readings of the orchestrated runs
ClockPoints == {FreshnessWindow, 2 * FreshnessWindow, 2 * FreshnessWindow + 1}

\* published keys: k1 of signer sk1, k2 of signer sk2 (to expire at 600), and
\* the record of k1 once it has been rotated out (expired at 300)
K1  == Jwk("k1", "EC", "P-256", <<"A", "Q">>, <<"A", "g">>, 0, None)
K2  == Jwk("k2", "EC", "P-256", <<"A", "g">>, <<"A", "Q">>, 0,
           Some(2 * FreshnessWindow))
K1x == Jwk("k1", "EC", "P-256", <<"A", "Q">>, <<"A", "g">>, 0,
           Some(FreshnessWindow))

\* the key sets the Key Fetcher may return
KeySets == {{K1, K2}, {K1x}}

\* a token of key id kid signed by sk, issued at 300 for body1
SignedToken(alg, kid, sk) ==
    Token(TRUE, "json", alg, kid, "full", FreshnessWindow, HexOf(sha256("body1")), sk)

GarbageToken ==
    Token(TRUE, "garbage", "ES256", NoKid, "full", FreshnessWindow,
          HexOf(sha256("body1")), "forged")

\* a delivery: the plaid-verification header (absent, not text, or the token)
\* and the request body
Delivery(header, token, body) == [header |-> header, token |-> token, body |-> body]

NoDelivery == Delivery("none", GarbageToken, "body1")

Deliveries ==
    {Delivery("absent", GarbageToken, "body1"),
     Delivery("binary", GarbageToken, "body1"),
     Delivery("text", GarbageToken, "body1"),
     Delivery("text", SignedToken("ES384", Some("k1"), "sk1"), "body1"),
     Delivery("text", SignedToken("none", Some("k1"), "sk1"), "body1"),
     Delivery("text", SignedToken("ES256", NoKid, "sk1"), "body1"),
     Delivery("text", SignedToken("ES256", Some("k1"), "sk1"), "body1"),
     Delivery("text", SignedToken("ES256", Some("k1"), "forged"), "body1"),
     Delivery("text", SignedToken("ES256", Some("k2"), "sk2"), "body1"),
     Delivery("text", SignedToken("ES256", Some(UnknownKid), "sk1"), "body1")}

\* what a call's key resolution got from the Key Fetcher
NotFetched     == [kind |-> "none", keys |-> {}, err |-> ""]
FetchError(e)  == [kind |-> "failed", keys |-> {}, err |-> e]
FetchedKeys(S) == [kind |-> "keys", keys |-> S, err |-> ""]

\* the errors the Key Fetcher collaborator may report
FetcherErrors == {"transport", "deserialization"}

VARIABLES
    now,              \* jsonwebtoken::get_current_timestamp()
    overflow_checks,  \* the build profile
    vkey, vtoken, vbody,   \* the arguments of a direct verify_webhook call
    vresult,               \* what it returned
    vexpired,              \* what a direct vkey.is_expired() call returned
    vtoken2,               \* a second token, for direct extract_key_id calls
    vkid,                  \* what extract_key_id returned on vtoken, vtoken2
    slist,                 \* a Vec<String> field under default_on_null
    sjson,                 \* what default_on_null::serialize made of it
    sback,                 \* what default_on_null::deserialize made of that
    cache,            \* Key Cache: key id -> Option<Jwk>
    pc,               \* per call: idle, fetching, waiting, verify, done,
                      \*           cancelled
    req,              \* per call: the delivery
    rkey,             \* per call: the key resolve returned (Option<Jwk>)
    res,              \* per call: the result
    steps,            \* per call: the steps executed so far, in order
    fetched,          \* per call: what resolve got from the Key Fetcher
    leader            \* per call: the call whose fetch it awaits (0: none)

serdeVars == <<slist, sjson, sback>>
pureVars == <<vkey, vtoken, vbody, vresult, vexpired, vtoken2, vkid,
              slist, sjson, sback>>
callVars == <<cache, pc, req, rkey, res, steps, fetched, leader>>
vars == <<now, overflow_checks, vkey, vtoken, vbody, vresult, vexpired,
          vtoken2, vkid, slist, sjson, sback,
          cache, pc, req, rkey, res, steps, fetched, leader>>

\* is_expired not called yet
NotCalled == [called |-> FALSE, ret |-> NoBool]
Returned(r) == [called |-> TRUE, ret |-> r]

\* nothing serialized
NoSerde ==
    /\ slist = <<>>
    /\ sjson = NotSerialized
    /\ sback = NotDeserialized

\* extract_key_id not called yet on either token
NoKidResult == [tag |-> "None", val |-> "", err |-> NoErr]
NoExtractCalls ==
    /\ vtoken2 = GarbageToken
    /\ vkid = [i \in 1..2 |-> NoKidResult]

\* no delivery received, nothing cached
CallsIdle ==
    /\ cache = [k \in CacheKeys |-> NoKey]
    /\ pc = [c \in Callers |-> "idle"]
    /\ req = [c \in Callers |-> NoDelivery]
    /\ rkey = [c \in Callers |-> NoKey]
    /\ res = [c \in Callers |-> NoResult]
    /\ steps = [c \in Callers |-> <<>>]
    /\ fetched = [c \in Callers |-> NotFetched]
    /\ leader = [c \in Callers |-> 0]

(***************************************************************************)
(* VerifySpec: one call of verify_webhook on each input.                   *)
(***************************************************************************)
VerifyInit ==
    /\ now \in TimePoints
    /\ overflow_checks \in BOOLEAN
    /\ vkey \in VerifyKeys
    /\ vtoken \in VerifyTokens
    /\ vbody \in Bodies
    /\ vresult = NoResult
    /\ vexpired = NotCalled
    /\ NoExtractCalls
    /\ NoSerde
    /\ CallsIdle

\* mutant: the call leaves the key it was given in the cache
CallVerifyCachesKey ==
    /\ vresult = NoResult
    /\ vresult' = verify_webhook(vkey, vtoken, vbody, now, overflow_checks)
    /\ cache' = [cache EXCEPT !["k1"] = Some(vkey)]
    /\ UNCHANGED <<now, overflow_checks, vkey, vtoken, vbody, vexpired,
                   vtoken2, vkid, serdeVars, pc, req, rkey, res, steps, fetched,
                   leader>>

CallVerify ==
    /\ vresult = NoResult
    /\ vresult' = verify_webhook(vkey, vtoken, vbody, now, overflow_checks)
    /\ UNCHANGED <<now, overflow_checks, vkey, vtoken, vbody, vexpired,
                   vtoken2, vkid, serdeVars, callVars>>

VerifyNext == CallVerify

VerifySpec == VerifyInit /\ [][VerifyNext]_vars

(***************************************************************************)
(* ExpirySpec: one call of Jwk::is_expired on each key and clock reading.  *)
(***************************************************************************)
\* the expired_at values: none, and each clock reading
ExpiryPoints == {None} \cup {Some(t) : t \in TimePoints}

ExpiryKeys ==
    {Jwk("k1", "EC", "P-256", <<"A", "Q">>, <<"A", "g">>, 0, e) : e \in ExpiryPoints}

ExpiryInit ==
    /\ now \in TimePoints
    /\ overflow_checks = FALSE
    /\ vkey \in ExpiryKeys
    /\ vtoken = GarbageToken /\ vbody = "body1"
    /\ vresult = NoResult
    /\ vexpired = NotCalled
    /\ NoExtractCalls
    /\ NoSerde
    /\ CallsIdle

\* key.is_expired(): `&self`, reads the clock
CallIsExpired ==
    /\ ~vexpired.called
    /\ vexpired' = Returned(is_expired(vkey, now))
    /\ UNCHANGED <<now, overflow_checks, vkey, vtoken, vbody, vresult,
                   vtoken2, vkid, serdeVars, callVars>>

ExpiryNext == CallIsExpired

ExpirySpec == ExpiryInit /\ [][ExpiryNext]_vars

(***************************************************************************)
(* SerdeSpec: a list is serialized with default_on_null and read back.     *)
(***************************************************************************)
SerdeInit ==
    /\ now = FreshnessWindow
    /\ overflow_checks = FALSE
    /\ vkey = K1 /\ vtoken = GarbageToken /\ vbody = "body1"
    /\ vresult = NoResult
    /\ vexpired = NotCalled
    /\ NoExtractCalls
    /\ slist \in Lists
    /\ sjson = NotSerialized
    /\ sback = NotDeserialized
    /\ CallsIdle

\* serde_json::to_value of the field
Serialize ==
    /\ sjson = NotSerialized
    /\ sjson' = serialize(slist)
    /\ UNCHANGED <<now, overflow_checks, vkey, vtoken, vbody, vresult, vexpired,
                   vtoken2, vkid, slist, sback, callVars>>

\* serde_json::from_value of what was written
Deserialize ==
    /\ sjson # NotSerialized
    /\ sback = NotDeserialized
    /\ sback' = deserialize(sjson)
    /\ UNCHANGED <<now, overflow_checks, vkey, vtoken, vbody, vresult, vexpired,
                   vtoken2, vkid, slist, sjson, callVars>>

SerdeNext == Serialize \/ Deserialize

SerdeSpec == SerdeInit /\ [][SerdeNext]_vars

(***************************************************************************)
(* ExtractSpec: extract_key_id called on two tokens that have the same     *)
(* header segment.                                                         *)
(***************************************************************************)
\* header segments: base64url of a JSON object, base64url of something else,
\* not base64url
HeaderShapes == {"json", "garbage", "notbase64"}

ExtractTokens ==
    {Token(p, h, alg, kid, c, 0, HexOf("digest1"), sk) :
        p \in BOOLEAN, h \in HeaderShapes,
        alg \in {"ES256", "ES384", "HS256", "none"},
        kid \in {NoKid, Some("k1"), Some("k2"), Some(UnknownKid)},
        c \in {"full", "no_iat"}, sk \in {"sk1", "forged"}}

\* the two tokens differ at most in their payload and signature segments
SameHeaderSegment(t1, t2) ==
    /\ t1.parts3 = t2.parts3
    /\ t1.hdr = t2.hdr /\ t1.alg = t2.alg /\ t1.kid = t2.kid

ExtractInit ==
    /\ now = FreshnessWindow
    /\ overflow_checks = FALSE
    /\ vkey = K1 /\ vbody = "body1"
    /\ vtoken \in ExtractTokens
    /\ vtoken2 \in {t \in ExtractTokens : SameHeaderSegment(vtoken, t)}
    /\ vkid = [i \in 1..2 |-> NoKidResult]
    /\ NoSerde
    /\ vresult = NoResult
    /\ vexpired = NotCalled
    /\ NoSerde
    /\ CallsIdle

\* extract_key_id(token) on the first or the second token
CallExtractKeyId(i) ==
    /\ vkid[i] = NoKidResult
    /\ vkid' = [vkid EXCEPT ![i] = extract_key_id(IF i = 1 THEN vtoken ELSE vtoken2)]
    /\ UNCHANGED <<now, overflow_checks, vkey, vtoken, vbody, vresult, vexpired,
                   vtoken2, serdeVars, callVars>>

ExtractNext == \E i \in 1..2 : CallExtractKeyId(i)

ExtractSpec == ExtractInit /\ [][ExtractNext]_vars

(***************************************************************************)
(* Claims about verify_webhook(key, token, webhook_bytes), under           *)
(* VerifySpec.                                                             *)
(***************************************************************************)
Called == vresult.tag # "None"

\* the key is a P-256 key whose coordinates decode to a point of the curve
WellFormedP256Key(key) ==
    /\ key.kty = "EC" /\ key.crv = "P-256"
    /\ string_to_big_num(key.x).tag = "Ok"
    /\ string_to_big_num(key.y).tag = "Ok"
    /\ <<string_to_big_num(key.x).val, string_to_big_num(key.y).val>> \in P256Points

\* the token is a three-part ES256 token carrying both claims, signed by the
\* private key that matches `key`
SignedByMatchingKey(token, key) ==
    /\ token.parts3 /\ token.hdr = "json" /\ token.alg = "ES256"
    /\ token.claims = "full"
    /\ token.signer \in Signers
    /\ PublicKeyOf(token.signer) =
          <<string_to_big_num(key.x).val, string_to_big_num(key.y).val>>

\* C1: verify_webhook returns Ok(true) only if the key's curve is P-256, the
\* token's ES256 signature validates under the public key rebuilt from x/y,
\* iat is not more than 300 seconds before now, and the SHA-256 of the body
\* equals the decoded request_body_sha256 claim.
C1_TrueOnlyIfAllChecksPass ==
    vresult = Ok(TRUE) =>
        /\ WellFormedP256Key(vkey)
        /\ SignedByMatchingKey(vtoken, vkey)
        /\ now - vtoken.iat <= 300
        /\ vtoken.sha = HexOf(sha256(vbody))

C1_Witness ==
    /\ vresult = Ok(TRUE)
    /\ now - vtoken.iat = 300

\* C2: for every P-256 key, token ES256-signed by the matching private key,
\* iat within 300 seconds of now and request_body_sha256 the hex SHA-256 of
\* the body, verification returns Ok(true).
C2_ValidTripleVerifies ==
    ( /\ Called
      /\ WellFormedP256Key(vkey)
      /\ SignedByMatchingKey(vtoken, vkey)
      /\ now - vtoken.iat <= 300 /\ vtoken.iat - now <= 300
      /\ vtoken.sha = HexOf(sha256(vbody)) )
    => vresult = Ok(TRUE)

\* C3: for every validly signed, fresh token, a body other than the one whose
\* SHA-256 is in request_body_sha256 gives Ok(false).
C3_MutatedBodyIsFalse ==
    ( /\ Called
      /\ WellFormedP256Key(vkey)
      /\ SignedByMatchingKey(vtoken, vkey)
      /\ now - vtoken.iat <= 300
      /\ \E b \in Bodies : b # vbody /\ vtoken.sha = HexOf(sha256(b)) )
    => vresult = Ok(FALSE)

\* what the digest step returns when it is reached
DigestOutcome ==
    IF vtoken.sha.fmt = "hex64" THEN Ok(sha256(vbody) = vtoken.sha.val)
    ELSE ErrB(CouldNotParse)

\* C4: for every token with a valid signature, verification returns Ok(false)
\* whenever now - iat > 300, and the freshness check does not reject when
\* now - iat <= 300.
C4_FreshnessWindow ==
    ( /\ Called
      /\ WellFormedP256Key(vkey)
      /\ SignedByMatchingKey(vtoken, vkey) )
    => /\ now - vtoken.iat > 300 => vresult = Ok(FALSE)
       /\ now - vtoken.iat <= 300 => vresult = DigestOutcome

(***************************************************************************)
(* The Verification Orchestrator and the Key Cache.  Their code is not     *)
(* among the sources; they are modelled from the specification (4.2, 4.5,  *)
(* 5): header extraction, extract_key_id, key resolution with per-key      *)
(* in-flight-fetch deduplication, verify_webhook.                          *)
(***************************************************************************)
\* error kinds of key resolution (7); FetchFailed wraps the collaborator's
\* error the way From<Error> does
KeyNotFound    == [kind |-> "KeyNotFound", arg |-> ""]
FetchFailed(e) == ApiError(e)

\* the header name, a protocol constant
HeaderName == "plaid-verification"

\* the key id of call c's token
KidOf(c) == extract_key_id(req[c].token).val

\* a cached entry that resolve may return at clock reading t
Usable(entry, t) == entry.some /\ is_expired(entry.v, t) # Some(TRUE)

\* a fetch for key id k is in flight
InFlight(k) == \E w \in Callers : pc[w] = "fetching" /\ KidOf(w) = k

\* the calls suspended on the in-flight fetch for key id k
Awaiting(k) == {w \in Callers : pc[w] \in {"fetching", "waiting"} /\ KidOf(w) = k}

\* the call ends with result r after the steps st
Finish(c, st, r) ==
    /\ pc' = [pc EXCEPT ![c] = "done"]
    /\ res' = [res EXCEPT ![c] = r]
    /\ steps' = [steps EXCEPT ![c] = st]
    /\ UNCHANGED <<cache, rkey, fetched, leader>>

\* the call that invoked the in-flight fetch for key id k
LeaderOf(k) == CHOOSE w \in Callers : pc[w] = "fetching" /\ KidOf(w) = k

\* mutant: every miss starts a fetch of its own
ResolveNoCoalescing(c, k) ==
    /\ steps' = [steps EXCEPT ![c] = <<"header", "extract_key_id", "resolve">>]
    /\ IF Usable(cache[k], now)
       THEN /\ pc' = [pc EXCEPT ![c] = "verify"]
            /\ rkey' = [rkey EXCEPT ![c] = cache[k]]
            /\ leader' = leader
       ELSE /\ pc' = [pc EXCEPT ![c] = "fetching"]
            /\ rkey' = rkey
            /\ leader' = [leader EXCEPT ![c] = c]
    /\ UNCHANGED <<cache, res, fetched>>

\* resolve(key_id), up to its return or its suspension on the Key Fetcher:
\* a usable cached entry is returned; a miss joins the fetch in flight for
\* the key id or, when there is none, invokes the Key Fetcher
Resolve(c, k) ==
    /\ steps' = [steps EXCEPT ![c] = <<"header", "extract_key_id", "resolve">>]
    /\ IF Usable(cache[k], now)
       THEN /\ pc' = [pc EXCEPT ![c] = "verify"]
            /\ rkey' = [rkey EXCEPT ![c] = cache[k]]
            /\ leader' = leader
       ELSE IF InFlight(k)
       THEN /\ pc' = [pc EXCEPT ![c] = "waiting"]
            /\ rkey' = rkey
            /\ leader' = [leader EXCEPT ![c] = LeaderOf(k)]
       ELSE /\ pc' = [pc EXCEPT ![c] = "fetching"]
            /\ rkey' = rkey
            /\ leader' = [leader EXCEPT ![c] = c]
    /\ UNCHANGED <<cache, res, fetched>>

\* mutant: the key is resolved before the token's header is inspected
ReceiveResolveFirst(c, d) ==
    /\ pc[c] = "idle"
    /\ req' = [req EXCEPT ![c] = d]
    /\ IF d.header # "text"
       THEN Finish(c, <<"header">>, ErrB(MissingParameter(HeaderName)))
       ELSE IF d.token.kid.some /\ d.token.hdr = "json"
       THEN Resolve(c, d.token.kid.v)
       ELSE Finish(c, <<"header", "extract_key_id">>,
                   ErrB(extract_key_id(d.token).err))
    /\ UNCHANGED <<now, overflow_checks, pureVars>>

\* mutant: the header's value is taken as the token whatever it is
ReceiveIgnoresHeader(c, d) ==
    /\ pc[c] = "idle"
    /\ req' = [req EXCEPT ![c] = d]
    /\ LET key_id == extract_key_id(d.token)
       IN  IF key_id.tag = "Err"
           THEN Finish(c, <<"header", "extract_key_id">>, ErrB(key_id.err))
           ELSE Resolve(c, key_id.val)
    /\ UNCHANGED <<now, overflow_checks, pureVars>>

\* verify_webhook(headers, body): a delivery arrives; the call runs up to its
\* first suspension
Receive(c, d) ==
    /\ pc[c] = "idle"
    /\ req' = [req EXCEPT ![c] = d]
    /\ IF d.header # "text"
       THEN Finish(c, <<"header">>, ErrB(MissingParameter(HeaderName)))
       ELSE LET key_id == extract_key_id(d.token)
            IN  IF key_id.tag = "Err"
                THEN Finish(c, <<"header", "extract_key_id">>, ErrB(key_id.err))
                ELSE Resolve(c, key_id.val)
    /\ UNCHANGED <<now, overflow_checks, pureVars>>

\* mutant: when the key id is not in the fetched set, some fetched key is used
FetchSucceedsAnyKey(c, S) ==
    /\ pc[c] = "fetching"
    /\ LET group == Awaiting(KidOf(c))
       IN  /\ pc' = [w \in Callers |-> IF w \in group THEN "verify" ELSE pc[w]]
           /\ rkey' = [w \in Callers |->
                       IF w \in group THEN Some(CHOOSE key \in S : TRUE) ELSE rkey[w]]
           /\ fetched' = [w \in Callers |->
                       IF w \in group THEN FetchedKeys(S) ELSE fetched[w]]
    /\ UNCHANGED <<now, overflow_checks, pureVars, cache, req, res, steps, leader>>

\* mutant: only the key asked for is stored
FetchSucceedsStoresOne(c, S) ==
    /\ pc[c] = "fetching"
    /\ LET k     == KidOf(c)
           group == Awaiting(k)
           found == \E key \in S : key.kid = k
           stored == [kk \in CacheKeys |->
                        IF kk = k /\ found
                        THEN Some(CHOOSE key \in S : key.kid = kk)
                        ELSE cache[kk]]
       IN  /\ cache' = stored
           /\ pc' = [w \in Callers |->
                       IF w \in group THEN (IF found THEN "verify" ELSE "done")
                       ELSE pc[w]]
           /\ rkey' = [w \in Callers |->
                       IF w \in group /\ found THEN stored[k] ELSE rkey[w]]
           /\ res' = [w \in Callers |->
                       IF w \in group /\ ~found THEN ErrB(KeyNotFound) ELSE res[w]]
           /\ fetched' = [w \in Callers |->
                       IF w \in group THEN FetchedKeys(S) ELSE fetched[w]]
    /\ UNCHANGED <<now, overflow_checks, pureVars, req, steps, leader>>

\* the Key Fetcher returns the key set S to the calls awaiting it
FetchSucceeds(c, S) ==
    /\ pc[c] = "fetching"
    /\ LET k     == KidOf(c)
           group == Awaiting(k)
           found == \E key \in S : key.kid = k
           stored == [kk \in CacheKeys |->
                        IF \E key \in S : key.kid = kk
                        THEN Some(CHOOSE key \in S : key.kid = kk)
                        ELSE cache[kk]]
       IN  /\ cache' = stored
           /\ pc' = [w \in Callers |->
                       IF w \in group THEN (IF found THEN "verify" ELSE "done")
                       ELSE pc[w]]
           /\ rkey' = [w \in Callers |->
                       IF w \in group /\ found THEN stored[k] ELSE rkey[w]]
           /\ res' = [w \in Callers |->
                       IF w \in group /\ ~found THEN ErrB(KeyNotFound) ELSE res[w]]
           /\ fetched' = [w \in Callers |->
                       IF w \in group THEN FetchedKeys(S) ELSE fetched[w]]
    /\ UNCHANGED <<now, overflow_checks, pureVars, req, steps, leader>>

\* mutant: after a failure the Key Fetcher is invoked again
FetchFailsRetried(c, e) ==
    /\ pc[c] = "fetching"
    /\ fetched[c] = NotFetched
    /\ fetched' = [w \in Callers |->
                     IF w \in Awaiting(KidOf(c)) THEN FetchError(e) ELSE fetched[w]]
    /\ UNCHANGED <<now, overflow_checks, pureVars, cache, pc, req, rkey, res, steps,
                   leader>>

\* mutant: a failed fetch leaves an entry behind for the key id asked for
FetchFailsEntryInstalled(c, e) ==
    /\ pc[c] = "fetching"
    /\ LET group == Awaiting(KidOf(c))
       IN  /\ pc' = [w \in Callers |-> IF w \in group THEN "done" ELSE pc[w]]
           /\ res' = [w \in Callers |->
                       IF w \in group THEN ErrB(FetchFailed(e)) ELSE res[w]]
           /\ fetched' = [w \in Callers |->
                       IF w \in group THEN FetchError(e) ELSE fetched[w]]
           /\ cache' = [cache EXCEPT ![KidOf(c)] =
                          Some(Jwk(KidOf(c), "EC", "P-256", <<>>, <<>>, 0, None))]
    /\ UNCHANGED <<now, overflow_checks, pureVars, req, rkey, steps, leader>>

\* the Key Fetcher fails; the failure is terminal for the calls awaiting it
FetchFails(c, e) ==
    /\ pc[c] = "fetching"
    /\ LET group == Awaiting(KidOf(c))
       IN  /\ pc' = [w \in Callers |-> IF w \in group THEN "done" ELSE pc[w]]
           /\ res' = [w \in Callers |->
                       IF w \in group THEN ErrB(FetchFailed(e)) ELSE res[w]]
           /\ fetched' = [w \in Callers |->
                       IF w \in group THEN FetchError(e) ELSE fetched[w]]
    /\ UNCHANGED <<now, overflow_checks, pureVars, cache, req, rkey, steps, leader>>

\* the request-handling framework drops call c at a suspension point; a fetch
\* in flight goes on for the calls still awaiting it
Cancel(c) ==
    /\ pc[c] \in {"fetching", "waiting", "verify"}
    /\ LET others == Awaiting(KidOf(c)) \ {c}
           heir   == CHOOSE w \in others : TRUE
       IN  IF pc[c] = "fetching" /\ others # {}
           THEN /\ pc' = [pc EXCEPT ![c] = "cancelled", ![heir] = "fetching"]
                /\ leader' = [w \in Callers |->
                                IF w \in others THEN heir ELSE leader[w]]
           ELSE /\ pc' = [pc EXCEPT ![c] = "cancelled"]
                /\ leader' = leader
    /\ UNCHANGED <<now, overflow_checks, pureVars, cache, req, rkey, res, steps,
                   fetched>>

\* step 4: the Signature Verifier on the resolved key
Verify(c) ==
    /\ pc[c] = "verify"
    /\ pc' = [pc EXCEPT ![c] = "done"]
    /\ res' = [res EXCEPT ![c] =
                 verify_webhook(rkey[c].v, req[c].token, req[c].body, now,
                                overflow_checks)]
    /\ steps' = [steps EXCEPT ![c] = Append(steps[c], "verify")]
    /\ UNCHANGED <<now, overflow_checks, pureVars, cache, req, rkey, fetched, leader>>

\* the clock advances
Tick ==
    /\ \E t \in ClockPoints : t > now /\ now' = t
    /\ UNCHANGED <<overflow_checks, pureVars, callVars>>

\* The clock readings of ClockPoints are at or above the window, where
\* `now - (5 * 60)` cannot underflow: the build profile makes no difference.
Init ==
    /\ now \in ClockPoints
    /\ overflow_checks = FALSE
    /\ vkey = K1 /\ vtoken = GarbageToken /\ vbody = "body1"
    /\ vresult = NoResult
    /\ vexpired = NotCalled
    /\ NoExtractCalls
    /\ NoSerde
    /\ CallsIdle

Next ==
    \/ \E c \in Callers, d \in Deliveries : Receive(c, d)
    \/ \E c \in Callers, S \in KeySets : FetchSucceeds(c, S)
    \/ \E c \in Callers, e \in FetcherErrors : FetchFails(c, e)
    \/ \E c \in Callers : Cancel(c)
    \/ \E c \in Callers : Verify(c)
    \/ Tick

Spec == Init /\ [][Next]_vars

(***************************************************************************)
(* Claims about the orchestrated verify_webhook and the Key Cache, under   *)
(* Spec.                                                                   *)
(***************************************************************************)
TokenOf(c) == req[c].token

\* call c has a token whose header parses as JSON and declares alg # ES256
DeclaresOtherAlgorithm(c) ==
    /\ pc[c] # "idle"
    /\ req[c].header = "text"
    /\ TokenOf(c).parts3 /\ TokenOf(c).hdr = "json"
    /\ TokenOf(c).alg # "ES256"

\* call c ended after extract_key_id: no key resolved or fetched, no
\* signature check
EndedBeforeResolve(c) ==
    /\ pc[c] = "done"
    /\ steps[c] = <<"header", "extract_key_id">>
    /\ fetched[c] = NotFetched /\ leader[c] = 0
    /\ ~rkey[c].some

\* C5 as stated: any token whose header declares an algorithm other than
\* ES256 makes verify_webhook fail with IncorrectAlgorithm, before any key
\* fetch, public-key reconstruction or signature check.
C5_OtherAlgorithmIsIncorrectAlgorithm ==
    \A c \in Callers :
        DeclaresOtherAlgorithm(c) =>
            /\ res[c] = ErrB(IncorrectAlgorithm)
            /\ EndedBeforeResolve(c)

\* C5 as amended: a declared algorithm other than ES256 that jsonwebtoken
\* knows gives IncorrectAlgorithm, one it does not know (such as "none")
\* gives CouldNotParse; either way before any key fetch, public-key
\* reconstruction or signature check.
C5_OtherAlgorithmRejectedBeforeCrypto ==
    \A c \in Callers :
        DeclaresOtherAlgorithm(c) =>
            /\ res[c] = IF TokenOf(c).alg \in Algorithm
                        THEN ErrB(IncorrectAlgorithm)
                        ELSE ErrB(CouldNotParse)
            /\ EndedBeforeResolve(c)

C5_Witness ==
    \E c \in Callers :
        /\ DeclaresOtherAlgorithm(c)
        /\ TokenOf(c).alg = "ES384"
        /\ res[c] = ErrB(IncorrectAlgorithm)
        /\ EndedBeforeResolve(c)

\* C6: resolve never returns a key for which is_expired(now) is Some(true):
\* whenever a call's resolve returns a key, the key is not expired at the
\* clock reading of the return.
C6_ResolveNeverReturnsExpired ==
    [][\A c \in Callers :
          (~rkey[c].some /\ rkey'[c].some)
              => is_expired(rkey'[c].v, now') # Some(TRUE)]_vars

\* call c's fetch returned a key set without the token's key id
FetchedWithoutKid(c) ==
    /\ fetched[c].kind = "keys"
    /\ ~\E key \in fetched[c].keys : key.kid = KidOf(c)

C8_MissingHeader ==
    \A c \in Callers :
        (pc[c] # "idle" /\ req[c].header # "text") =>
            /\ pc[c] = "done"
            /\ res[c] = ErrB(MissingParameter("plaid-verification"))
            /\ steps[c] = <<"header">>
            /\ fetched[c] = NotFetched /\ leader[c] = 0
            /\ ~rkey[c].some

C8_Witness ==
    /\ \E c \in Callers : pc[c] = "done" /\ req[c].header = "absent"
    /\ \E c \in Callers : pc[c] = "done" /\ req[c].header = "binary"

StepOrder == <<"header", "extract_key_id", "resolve", "verify">>

Prefix(n) == SubSeq(StepOrder, 1, n)

\* C9: verify_webhook runs header extraction, extract_key_id, key resolution
\* and signature verification in this order and returns the error of the
\* first step that fails; no later step runs after a failing step, and no
\* result exists before the call has ended.
C9_StepsInOrderFirstErrorReturned ==
    \A c \in Callers :
        /\ \E n \in 0..Len(StepOrder) : steps[c] = Prefix(n)
        /\ pc[c] = "idle" => steps[c] = <<>> /\ res[c] = NoResult
        /\ pc[c] \in {"fetching", "waiting", "verify", "cancelled"} =>
               steps[c] = Prefix(3) /\ res[c] = NoResult
        /\ pc[c] = "done" =>
               IF req[c].header # "text"
               THEN steps[c] = Prefix(1)
                    /\ res[c] = ErrB(MissingParameter("plaid-verification"))
               ELSE IF extract_key_id(TokenOf(c)).tag = "Err"
               THEN steps[c] = Prefix(2)
                    /\ res[c] = ErrB(extract_key_id(TokenOf(c)).err)
               ELSE IF fetched[c].kind = "failed"
               THEN steps[c] = Prefix(3) /\ res[c] = ErrB(FetchFailed(fetched[c].err))
               ELSE IF FetchedWithoutKid(c)
               THEN steps[c] = Prefix(3) /\ res[c] = ErrB(KeyNotFound)
               ELSE /\ steps[c] = Prefix(4)
                    /\ rkey[c].some
                    /\ \E t \in ClockPoints :
                          /\ t <= now
                          /\ res[c] = verify_webhook(rkey[c].v, TokenOf(c),
                                          req[c].body, t, overflow_checks)

C9_Witness ==
    \E c1, c2 \in Callers :
        /\ pc[c1] = "done" /\ res[c1] = ErrB(KeyNotFound)
        /\ pc[c2] = "done" /\ res[c2] = Ok(TRUE)

\* C10: when N concurrent calls all miss the cache for the same key id, the
\* Key Fetcher is invoked once for all of them, and all of them resolve to
\* the same key record.
C10_ConcurrentMissesCoalesce ==
    /\ \A k \in CacheKeys :
          Awaiting(k) # {} =>
              Cardinality({w \in Awaiting(k) : pc[w] = "fetching"}) = 1
    /\ \A c1, c2 \in Callers :
          ( /\ leader[c1] # 0 /\ leader[c1] = leader[c2]
            /\ pc[c1] \in {"verify", "done"} /\ pc[c2] \in {"verify", "done"} )
          => /\ rkey[c1] = rkey[c2]
             /\ fetched[c1] = fetched[c2]

C10_Witness ==
    /\ \A c \in Callers : pc[c] = "verify" /\ rkey[c].some /\ leader[c] = 1
    /\ \A c1, c2 \in Callers : rkey[c1] = rkey[c2]

\* the cache after the key set S has been stored, each key under its own id
Stored(S) ==
    [k \in CacheKeys |->
        IF \E key \in S : key.kid = k
        THEN Some(CHOOSE key \in S : key.kid = k)
        ELSE cache[k]]

\* C11: the cache changes only in the step in which a fetch succeeds, and
\* then all of the returned keys are stored at once, each whole; a failed
\* fetch or a cancelled call leaves the cache as it was, and every entry a
\* reader can see is a whole published key record under its own id.
C11_CacheInstalledOnlyOnSuccess ==
    [][ /\ cache' # cache =>
              \E S \in KeySets :
                  /\ \E c \in Callers :
                        fetched[c] = NotFetched /\ fetched'[c] = FetchedKeys(S)
                  /\ cache' = Stored(S)
        /\ (\E c \in Callers : pc[c] # "cancelled" /\ pc'[c] = "cancelled")
              => cache' = cache
        /\ (\E c \in Callers : fetched[c].kind # "failed" /\ fetched'[c].kind = "failed")
              => cache' = cache
        /\ \A k \in CacheKeys :
              cache'[k].some =>
                  cache'[k].v.kid = k /\ cache'[k].v \in UNION KeySets ]_vars

C11_Witness ==
    /\ \E c \in Callers : pc[c] = "cancelled" /\ leader[c] = c
    /\ \E c \in Callers : fetched[c].kind = "failed"
    /\ \A k \in CacheKeys : ~cache[k].some

\* C12: when the Key Fetcher fails during a call's resolve, the call ends
\* with FetchFailed wrapping the collaborator's error, after the resolve
\* step and without a key; the failure is final for the call: the fetcher is
\* not invoked again and the result does not change.
C12_FetchFailureIsTerminal ==
    [][ \A c \in Callers :
          /\ fetched'[c].kind = "failed" =>
                /\ fetched'[c].err \in FetcherErrors
                /\ pc'[c] = "done"
                /\ res'[c] = ErrB(ApiError(fetched'[c].err))
                /\ steps'[c] = <<"header", "extract_key_id", "resolve">>
                /\ ~rkey'[c].some
          /\ fetched[c].kind = "failed" => fetched'[c] = fetched[c] ]_vars

C12_Witness ==
    \E c1, c2 \in Callers :
        /\ res[c1] = ErrB(ApiError("transport"))
        /\ res[c2] = ErrB(ApiError("deserialization"))
        /\ fetched[c1].kind = "failed" /\ fetched[c2].kind = "failed"

\* call c starts in this step with a token whose key id is k, and reaches
\* resolve(k)
Resolves(c, k) ==
    /\ pc[c] = "idle" /\ pc'[c] # "idle"
    /\ req'[c].header = "text"
    /\ extract_key_id(req'[c].token) = Ok(k)

C14_ExpiredEntryRefetched ==
    [][ \A c \in Callers, k \in CacheKeys :
          (Resolves(c, k) /\ cache[k].some) =>
              LET entry == cache[k].v
              IN  /\ (entry.expired_at.some /\ entry.expired_at.v < now)
                        => /\ pc'[c] \in {"fetching", "waiting"}
                           /\ ~rkey'[c].some
                           /\ leader'[c] # 0
                  /\ (~entry.expired_at.some \/ now < entry.expired_at.v)
                        => /\ pc'[c] = "verify"
                           /\ rkey'[c] = cache[k]
                           /\ fetched'[c] = NotFetched /\ leader'[c] = 0 ]_vars

C14_Witness ==
    \E c1, c2 \in Callers :
        /\ pc[c1] = "fetching" /\ KidOf(c1) = "k2"
        /\ cache["k2"] = Some(K2) /\ K2.expired_at.v < now
        /\ fetched[c2] = FetchedKeys({K1, K2}) /\ rkey[c2].some

\* C15: is_expired returns None when the key has no expired_at, Some(true)
\* when now >= expired_at, Some(false) when now < expired_at, and changes
\* neither the key nor the clock nor the cache.
C15_IsExpired ==
    [][ vexpired' # vexpired =>
          /\ vexpired'.called
          /\ vexpired'.ret =
                IF ~vkey.expired_at.some THEN NoBool
                ELSE IF now >= vkey.expired_at.v THEN Some(TRUE)
                ELSE Some(FALSE)
          /\ vkey' = vkey /\ now' = now /\ cache' = cache ]_vars

(***************************************************************************)
(* Further claims about verify_webhook(key, token, webhook_bytes), under   *)
(* VerifySpec.                                                             *)
(***************************************************************************)
IsP256(key) == key.kty = "EC" /\ key.crv = "P-256"

\* C16: when the key is not a P-256 elliptic-curve key, verify_webhook
\* returns Ok(false), whatever the key's coordinates and the token are: no
\* coordinate is decoded and the token is not examined.
C16_WrongKeyTypeShortCircuits ==
    (Called /\ ~IsP256(vkey)) => vresult = Ok(FALSE)

C16_Witness ==
    /\ vresult = Ok(FALSE)
    /\ ~IsP256(vkey)
    /\ string_to_big_num(vkey.x).tag = "Err"
    /\ decode_header(vtoken).tag = "Err"

\* the key is an elliptic-curve key of a curve other than P-256
OtherCurve(key) == key.kty = "EC" /\ key.crv # "P-256"

\* C17 as stated: using a verification key whose curve is not P-256 signals
\* IncorrectAlgorithm.
C17_OtherCurveSignalsIncorrectAlgorithm ==
    (Called /\ OtherCurve(vkey)) => vresult = ErrB(IncorrectAlgorithm)

\* C17 as amended: a verification key whose curve is not P-256 is unusable:
\* verifying with it gives the result false and no error, neither
\* IncorrectAlgorithm nor a key-not-found condition, even for a token that
\* the key's coordinates would verify.
C17_OtherCurveIsUnusable ==
    (Called /\ OtherCurve(vkey)) =>
        /\ vresult.tag = "Ok" /\ vresult.val = FALSE
        /\ vresult.err.kind \notin {"IncorrectAlgorithm", "KeyNotFound"}

C17_Witness ==
    /\ Called /\ OtherCurve(vkey)
    /\ SignedByMatchingKey(vtoken, vkey)
    /\ now - vtoken.iat <= 300 /\ now >= 300
    /\ vtoken.sha = HexOf(sha256(vbody))
    /\ vresult = Ok(FALSE)

\* C18: with a well-formed P-256 key, a token whose signature does not
\* validate under it, or whose payload lacks iat or request_body_sha256,
\* gives Err(CouldNotValidate), whatever the clock, iat, the digest claim
\* and the body are: the freshness and digest checks are not evaluated.
C18_BadSignatureIsCouldNotValidate ==
    ( /\ Called
      /\ WellFormedP256Key(vkey)
      /\ \/ ~SignedByMatchingKey(vtoken, vkey)
         \/ vtoken.claims # "full" )
    => vresult = ErrB(CouldNotValidate)

C18_Witness ==
    /\ vresult = ErrB(CouldNotValidate)
    /\ WellFormedP256Key(vkey)
    /\ vtoken.signer = "forged" /\ vtoken.claims = "full"
    /\ now < FreshnessWindow /\ overflow_checks
    /\ vtoken.sha.fmt # "hex64"

\* the token is well formed and signed by the key's signer, and the key is
\* a well-formed P-256 key
ValidlySigned == WellFormedP256Key(vkey) /\ SignedByMatchingKey(vtoken, vkey)

Stale == now - vtoken.iat > 300

BodyMismatch == vtoken.sha.fmt = "hex64" /\ vtoken.sha.val # sha256(vbody)

\* the token is a well-formed ES256 token that the key's signer did not sign
BadSignature ==
    /\ vtoken.parts3 /\ vtoken.hdr = "json" /\ vtoken.alg = "ES256"
    /\ vtoken.claims = "full"
    /\ ~SignatureValid(vtoken, <<string_to_big_num(vkey.x).val,
                                 string_to_big_num(vkey.y).val>>)

C20_FutureIatVerifies ==
    ( /\ Called
      /\ ValidlySigned
      /\ vtoken.iat > now
      /\ vtoken.sha = HexOf(sha256(vbody)) )
    => vresult = Ok(TRUE)

TokenAt(i) == IF i = 1 THEN vtoken ELSE vtoken2

Extracted(i) == vkid[i] # NoKidResult

\* the token's header segment decodes to a header jsonwebtoken accepts
WellFormedHeader(t) == t.parts3 /\ t.hdr = "json" /\ t.alg \in Algorithm

\* C22: on a token whose header is well formed and declares ES256,
\* extract_key_id returns Err(MissingParameter("kid")) when there is no kid
\* and Ok of exactly the kid string when there is one.
C22_KidReturnedOrMissing ==
    \A i \in 1..2 :
        (Extracted(i) /\ WellFormedHeader(TokenAt(i)) /\ TokenAt(i).alg = "ES256")
        => vkid[i] = IF TokenAt(i).kid.some THEN Ok(TokenAt(i).kid.v)
                     ELSE ErrS(MissingParameter("kid"))

C22_Witness ==
    /\ vkid[1] = ErrS(MissingParameter("kid"))
    /\ vkid[2] = ErrS(MissingParameter("kid"))
    /\ vtoken.signer # vtoken2.signer

\* C23: extract_key_id returns Err(CouldNotParse) when the header segment
\* is not base64url or does not decode to a well-formed header, and two
\* tokens with the same header segment that differ in payload or signature
\* get the same result.
C23_HeaderSegmentOnly ==
    /\ \A i \in 1..2 :
          (Extracted(i) /\ TokenAt(i).parts3
             /\ (TokenAt(i).hdr # "json" \/ TokenAt(i).alg \notin Algorithm))
          => vkid[i] = ErrS(CouldNotParse)
    /\ (Extracted(1) /\ Extracted(2) /\ SameHeaderSegment(vtoken, vtoken2))
          => vkid[1] = vkid[2]

C23_Witness ==
    /\ vkid[1] = Ok("k1") /\ vkid[2] = Ok("k1")
    /\ vtoken.signer = "sk1" /\ vtoken2.signer = "forged"
    /\ vtoken.claims # vtoken2.claims

\* C27: a parseable header that declares an algorithm other than ES256 and
\* has no kid gives Err(IncorrectAlgorithm), not
\* Err(MissingParameter("kid")).
C27_AlgorithmCheckedBeforeKid ==
    \A i \in 1..2 :
        ( /\ Extracted(i) /\ WellFormedHeader(TokenAt(i))
          /\ TokenAt(i).alg # "ES256" /\ ~TokenAt(i).kid.some )
        => vkid[i] = ErrS(IncorrectAlgorithm)

C27_Witness ==
    /\ Extracted(1) /\ WellFormedHeader(vtoken)
    /\ vtoken.alg = "HS256" /\ ~vtoken.kid.some
    /\ vkid[1] = ErrS(IncorrectAlgorithm)

(***************************************************************************)
(* Claims about the steps inside verify_webhook(key, token, webhook_bytes),*)
(* under VerifySpec.                                                       *)
(***************************************************************************)
CoordsDecode(key) ==
    string_to_big_num(key.x).tag = "Ok" /\ string_to_big_num(key.y).tag = "Ok"

C25_VerifyEnforcesEs256 ==
    ( /\ Called /\ WellFormedP256Key(vkey)
      /\ vtoken.parts3 /\ vtoken.hdr = "json" /\ vtoken.alg # "ES256" )
    => vresult = ErrB(CouldNotValidate)

C25_Witness ==
    /\ vresult = ErrB(CouldNotValidate)
    /\ WellFormedP256Key(vkey)
    /\ vtoken.alg = "ES384" /\ vtoken.claims = "full"
    /\ SignatureValid(vtoken, <<string_to_big_num(vkey.x).val,
                                string_to_big_num(vkey.y).val>>)
    /\ now >= 300 /\ now - vtoken.iat <= 300
    /\ vtoken.sha = HexOf(sha256(vbody))

\* C28: for a validly signed token whose request_body_sha256 is not the hex
\* of 32 bytes, the result is Err(CouldNotParse) when the token is fresh and
\* Ok(false) when it is stale.
C28_FreshnessBeforeDigestDecoding ==
    (Called /\ ValidlySigned /\ vtoken.sha.fmt # "hex64") =>
        vresult = IF Stale THEN Ok(FALSE) ELSE ErrB(CouldNotParse)

\* C29: for every clock reading, those below 300 included, the freshness
\* comparison completes without panic or wrap-around: a validly signed token
\* with a matching digest is rejected exactly when now - iat > 300.
C29_FreshnessNeverUnderflows ==
    (Called /\ ValidlySigned /\ vtoken.sha = HexOf(sha256(vbody))) =>
        /\ vresult.tag # "Panic"
        /\ vresult = Ok(FALSE) <=> now - vtoken.iat > 300
        /\ vresult = Ok(TRUE) <=> now - vtoken.iat <= 300

\* the two keys differ at most in created_at and expired_at
SameButTimestamps(k1, k2) ==
    /\ k1.kid = k2.kid /\ k1.kty = k2.kty /\ k1.crv = k2.crv
    /\ k1.x = k2.x /\ k1.y = k2.y

\* C30: verify_webhook does not consult created_at or expired_at: a key that
\* differs from the one given only in those fields gives the same result at
\* the same time, and a key whose expired_at has passed still verifies a
\* matching fresh token as Ok(true).
C30_VerifyIgnoresExpiry ==
    Called =>
        /\ \A key \in VerifyKeys :
              SameButTimestamps(key, vkey) =>
                  vresult = verify_webhook(key, vtoken, vbody, now, overflow_checks)
        /\ ( /\ ValidlySigned
             /\ vkey.expired_at.some /\ vkey.expired_at.v < now
             /\ now - vtoken.iat <= 300
             /\ vtoken.sha = HexOf(sha256(vbody)) )
           => vresult = Ok(TRUE)

C30_Witness ==
    /\ vresult = Ok(TRUE)
    /\ vkey.expired_at = Some(300) /\ now > 300
    /\ is_expired(vkey, now) = Some(TRUE)

(***************************************************************************)
(* Claim about serde_utils::default_on_null, under SerdeSpec.              *)
(***************************************************************************)
\* C26: default_on_null serializes an empty list as null and a non-empty
\* list as the array of its items, deserializing null gives the empty list,
\* and serializing then deserializing gives back the original list.
C26_DefaultOnNullRoundTrip ==
    /\ sjson # NotSerialized =>
          /\ slist = <<>> => sjson = JsonNull
          /\ slist # <<>> =>
                /\ sjson.t = "array" /\ Len(sjson.items) = Len(slist)
                /\ \A i \in 1..Len(slist) : sjson.items[i] = JsonString(slist[i])
    /\ sback # NotDeserialized =>
          /\ sjson = JsonNull => sback = Ok(<<>>)
          /\ sback = Ok(slist)

C26_Witness ==
    /\ slist = <<>> /\ sjson = JsonNull /\ sback = Ok(<<>>)

=============================================================================
